---------------------------- MODULE Spec2Model ----------------------------
(***************************************************************************)
(* Tiered conversation memory (workflow/memory_manager.py over the Redis   *)
(* conversation buffer and the PostgreSQL messages/sessions tables) and    *)
(* the multi-phase pipeline of workflow/orchestrator.py, for one           *)
(* conversation (one session_id).                                          *)
(*                                                                         *)
(* A text is a sequence of tokens, so that concatenation (the escalation   *)
(* note put before a response) is real concatenation.  A turn is a record  *)
(* [id, role, content, timestamp]; id is the position of the turn in the    *)
(* order of the receive_input calls and stands for the turn's identity;    *)
(* timestamp is int(time.time()) of the call, in whole seconds.            *)
(***************************************************************************)
EXTENDS Integers, Sequences, FiniteSets, TLC

VARIABLES
    max_buffer_messages,  \* MemoryManager.max_buffer_messages
    uuidValid,            \* uuid.UUID(session_id) succeeds
    hot,                  \* Redis list agent:stm:chat:{session_id}
    cold,                 \* rows of table messages for the session, oldest first
    session,              \* row of table sessions for the session
    nextId,               \* number of receive_input calls made so far, plus one
    saveFailures,         \* failed durable writes of an eviction set so far
    appended,             \* ids of the turns ever appended to the hot buffer
    compacted,            \* ids of the rows deleted by _delete_old_messages
    last,                 \* what the last receive_input call did
    customer,             \* row of table customers of the session's user
    clock,                \* time.time() in whole seconds
    chat_ttl,             \* expiry of the Redis key agent:stm:chat:{session_id}
    ctx,                  \* Redis hash agent:stm:context:{session_id}
    ctx_op,               \* what the last operation on the context hash did
    pc,                   \* position of process_user_message
    runs,                 \* process_user_message runs started so far
    handoff_result,       \* AnalyseHandoffOutput of the run
    orchestrator_result,  \* OrchestratorAgentOutput of the run
    sales_result,         \* SalesAgentOutput.response_text of the run
    guardrail_result,     \* GuardrailOutput of the run
    final_response_text,  \* final_response_text of the run
    handoff_write,        \* outcome of the run's durable handoff update
    phase_trace,          \* phase_trace of the run, its step markers
    phase1,               \* the two tasks of the Phase 1 asyncio.gather
    intent_result,        \* IntentAgentOutput of the run
    orchestrator_input,   \* OrchestratorAgentInput of the run
    offer,                \* Phase 2.4 of the run: catalog, candidates, selection
    inflight              \* compactions suspended in their summary-agent calls

pgVars == <<max_buffer_messages, uuidValid, cold, session, nextId,
            saveFailures, appended, compacted, last, customer>>
redisVars == <<hot, chat_ttl, ctx, ctx_op>>
memVars == <<pgVars, redisVars, clock>>
\* state of the finer-grained views of one step: the Phase 1 join, the
\* Phase 2.4 offer selection and the suspended compactions
sideVars == <<phase1, intent_result, orchestrator_input, offer, inflight>>
runVars == <<pc, runs, handoff_result, orchestrator_result, sales_result,
             guardrail_result, final_response_text, handoff_write,
             phase_trace, sideVars>>
vars == <<max_buffer_messages, uuidValid, hot, cold, session, nextId,
          saveFailures, appended, compacted, last, customer, clock, chat_ttl,
          ctx, ctx_op, pc, runs, handoff_result, orchestrator_result,
          sales_result, guardrail_result, final_response_text, handoff_write,
          phase_trace, phase1, intent_result, orchestrator_input, offer,
          inflight>>

----------------------------------------------------------------------------
(* Bounds of the model *)

\* receive_input calls made directly on a MemoryManager
MaxTurns == 78
\* largest non-default max_buffer_messages a MemoryManager is built with
SmallBufferMax == 3
\* durable writes of an eviction set that may fail in one behaviour
MaxSaveFailures == 1
\* turns already received when the pipeline run starts
MaxPriorTurns == 21
\* process_user_message runs in one behaviour
MaxRuns == 1
\* receive_input calls made in the same second as the call before them
MaxSameSecond == 1
\* receive_input calls made between the operations on the context hash
MaxCtxTurns == 1
\* seconds that pass between the operations on the context hash
MaxClock == 1
\* largest absolute value of total_tokens
MaxTokens == 2

(* Constants of the program *)

DefaultMaxBuffer == 50
Watermark == 50
DurableTail == 50
SummaryWindow == 50
\* the smallest max_buffer_messages whose sliding window moves turns
SmallestBuffer == 2
ShortMemory == 20

----------------------------------------------------------------------------
(* Optional values and texts *)

None == [kind |-> "none", val |-> <<>>]
Some(t) == [kind |-> "text", val |-> t]
Dict(keys) == [kind |-> "dict", val |-> keys]
List(items) == [kind |-> "list", val |-> items]

UserText == <<"user message">>
HandoffReason == <<"handoff reason">>
SummaryFallback == <<"No summary available">>

\* the metadata the escalation write stores: its summary key, and its task,
\* intent_code, clean_intent_text, risk_level and handoff_required keys
EscalationTrace == Dict(<<"intent", "handoff_analysis", "orchestration">>)
EscalationKeys == Dict(<<"task", "intent_code", "clean_intent_text",
                         "risk_level", "handoff_required">>)

----------------------------------------------------------------------------
(* Sequence helpers: Python slices and Redis LTRIM *)

LastN(s, n) == IF n >= Len(s) THEN s ELSE SubSeq(s, Len(s) - n + 1, Len(s))

\* messages[:-k]; -0 is 0 in Python, so messages[:-0] is messages[:0]
SliceButLast(s, k) == IF k = 0 THEN <<>>
                      ELSE IF k >= Len(s) THEN <<>>
                      ELSE SubSeq(s, 1, Len(s) - k)

\* messages[-k:]; messages[-0:] is messages[0:]
SliceLast(s, k) == IF k = 0 THEN s ELSE LastN(s, k)

Ids(s) == {s[i].id : i \in 1..Len(s)}

----------------------------------------------------------------------------
(* MemoryManager *)

keep_count(maxb) == maxb \div 2

\* ConversationBuffer.trim_conversation: LTRIM key -max_messages -1
trim_conversation(buf, max_messages) ==
    IF max_messages > 0 THEN LastN(buf, max_messages) ELSE buf

\* RedisMemoryManager.get_conversation_history: trims, then reads
get_conversation_history(buf, max_messages) ==
    IF max_messages > 0 THEN trim_conversation(buf, max_messages) ELSE buf

NeedsSlidingWindow(buf, maxb) == Len(buf) > maxb

old_messages(buf, maxb) == SliceButLast(buf, keep_count(maxb))

new_messages(buf, maxb) == SliceLast(buf, keep_count(maxb))

\* the watermark test without its lower bound
CompactionDueAtZero(message_count) == message_count % Watermark = 0

CompactionDue(message_count) ==
    message_count >= Watermark /\ message_count % Watermark = 0

\* rows in insertion order, whose created_at never decreases: the first and
\* the last row that carry the created_at of row k
GroupStart(rows, k) ==
    CHOOSE i \in 1..k :
        /\ rows[i].timestamp = rows[k].timestamp
        /\ (i = 1 \/ rows[i - 1].timestamp # rows[k].timestamp)

GroupEnd(rows, k) ==
    CHOOSE i \in k..Len(rows) :
        /\ rows[i].timestamp = rows[k].timestamp
        /\ (i = Len(rows) \/ rows[i + 1].timestamp # rows[k].timestamp)

HasTies(rows) ==
    \E i \in 1..(Len(rows) - 1) : rows[i].timestamp = rows[i + 1].timestamp

\* ORDER BY created_at DESC names no order for rows of equal created_at:
\* the query may list them newest insert first or oldest insert first
TieOrders == {"newest_first", "oldest_first"}

\* the rows of an ORDER BY created_at DESC query, read from last to first
AscendingRead(rows, tie) ==
    IF tie = "newest_first"
    THEN rows
    ELSE [k \in 1..Len(rows) |->
             rows[GroupStart(rows, k) + GroupEnd(rows, k) - k]]

\* messages_dict: ORDER BY created_at DESC LIMIT 50, then reversed()
messages_dict(rows, tie) == LastN(AscendingRead(rows, tie), SummaryWindow)

\* DELETE ... WHERE id NOT IN (... ORDER BY created_at DESC LIMIT 50)
DeleteOldMessages(rows, tie) ==
    LET kept == Ids(LastN(AscendingRead(rows, tie), DurableTail))
    IN  SelectSeq(rows, LAMBDA r : r.id \in kept)

\* what the summarization step hands back: it raises, or returns a dict
SummaryOutcomes == {"raise", "empty_dict", "empty_summary", "text", "fallback"}

SummaryText(outcome) ==
    CASE outcome = "text" -> <<"summary">>
      [] outcome = "fallback" -> SummaryFallback
      [] OTHER -> <<>>

\* what the extraction step hands back: it raises, or returns a dict without
\* or with a name
ExtractionOutcomes == {"raise", "ok", "identity"}

ExtractedName == <<"extracted name">>

\* outcomes of the calls made inside _trigger_summary_agents: the query for
\* the last rows, the two summary-agent calls (the summary dict with its tags
\* and key_topics lists), the customer update, the session update, the delete
QuietCompaction ==
    [fetchOk |-> TRUE, extraction |-> "ok", summary |-> "text",
     tags |-> <<>>, key_topics |-> <<>>, mergeOk |-> TRUE, updateOk |-> TRUE,
     deleteOk |-> TRUE]

CompactionOutcomes ==
    {o \in [fetchOk : BOOLEAN, extraction : ExtractionOutcomes,
            summary : SummaryOutcomes, tags : {<<>>, <<"new tag">>},
            key_topics : {<<>>, <<"new topic">>}, mergeOk : BOOLEAN,
            updateOk : BOOLEAN, deleteOk : BOOLEAN] :
        /\ (o.summary # "text" => (o.tags = <<>> /\ o.key_topics = <<>>))
        /\ (o.extraction # "identity" => o.mergeOk)
        /\ (o.summary \in {"raise", "empty_dict"} => o.updateOk)
        /\ ((o.extraction = "raise" \/ o.summary = "raise")
                => (o.mergeOk /\ o.updateOk /\ o.deleteOk))
        /\ (~o.fetchOk => o = [QuietCompaction EXCEPT !.fetchOk = FALSE])}

\* without a customer row a name that was extracted changes nothing
OutcomesFor(cust) ==
    IF cust.exists THEN CompactionOutcomes
    ELSE {o \in CompactionOutcomes : o.extraction # "identity"}

NoCall == [called |-> FALSE, id |-> 0, evicted |-> FALSE, pre |-> <<>>,
           old |-> <<>>, saveFailed |-> FALSE, saveSkipped |-> FALSE,
           countBefore |-> 0,
           countAtCheck |-> 0, countRead |-> -1, fired |-> FALSE,
           completed |-> FALSE, outcome |-> QuietCompaction, fetched |-> <<>>,
           summaryUpdated |-> FALSE, customerMerged |-> FALSE]

\* asyncio.gather returned both results: nothing before it raised
Gathered(o) == o.fetchOk /\ o.extraction # "raise" /\ o.summary # "raise"

\* _update_customer_info ran to its commit on an existing customer row
CustomerMerged(sess, cust, o) ==
    Gathered(o) /\ o.extraction = "identity" /\ sess.exists /\ cust.exists
        /\ o.mergeOk

\* _update_session_summary ran to its commit
SummaryUpdated(sess, o) ==
    Gathered(o) /\ o.summary # "empty_dict" /\ sess.exists /\ o.updateOk

\* _delete_old_messages committed
TailDeleted(o) == Gathered(o) /\ o.deleteOk

\* _update_session_summary on the session row: metadata["summary"] is set,
\* tags and key_topics are set when the new list is not empty, and
\* update_session_handoff is called with handoff_reason=None
SessionAfterSummary(sess, o) ==
    IF SummaryUpdated(sess, o)
    THEN [sess EXCEPT !.summary = Some(SummaryText(o.summary)),
                      !.tags = IF o.tags # <<>> THEN List(o.tags) ELSE @,
                      !.key_topics = IF o.key_topics # <<>>
                                     THEN List(o.key_topics) ELSE @]
    ELSE sess

\* _update_customer_info on the customer row
CustomerAfterSummary(sess, cust, o) ==
    IF CustomerMerged(sess, cust, o)
    THEN [cust EXCEPT !.full_name = Some(ExtractedName)]
    ELSE cust

\* MemoryManager._trigger_summary_agents on the rows of table messages
RowsAfterSummary(rows, o, tie) ==
    IF TailDeleted(o) THEN DeleteOldMessages(rows, tie) ELSE rows

\* _save_messages_to_postgres reaches commit: an invalid UUID returns before,
\* and without a sessions row the foreign key of messages.session_id fails
CommitTried(old) == old # <<>> /\ uuidValid /\ session.exists

----------------------------------------------------------------------------
(* ActiveContext: the Redis hash of a conversation *)

ContextFields == {"current_goal", "extracted_entities", "total_tokens"}

NoContext == [ttl |-> "absent", created |-> FALSE, has_tokens |-> FALSE,
              total_tokens |-> 0, fields |-> {}, updated_at |-> 0]

NoCtxOp == [op |-> "none", field |-> "", created_before |-> FALSE,
            tokens_before |-> 0, amount |-> 0, time |-> 0]

CtxOp(c, op, field, amount, now) ==
    [op |-> op, field |-> field, created_before |-> c.created,
     tokens_before |-> c.total_tokens, amount |-> amount, time |-> now]

\* HSET on the hash creates the key, without expiry, when it does not exist
Written(c) == IF c.ttl = "absent" THEN [c EXCEPT !.ttl = "persistent"] ELSE c

\* redis EXPIRE key ttl: nothing happens to a key that does not exist;
\* `if ttl:` skips the call when no ttl is passed
Expire(c, ttl) ==
    IF ttl = "default_ttl" /\ c.ttl # "absent"
    THEN [c EXCEPT !.ttl = "default_ttl"] ELSE c

\* ActiveContext.initialize(ttl)
initialize(c, ttl, now) ==
    Expire([Written(c) EXCEPT !.created = TRUE, !.has_tokens = TRUE,
                              !.total_tokens = 0, !.updated_at = now], ttl)

\* ActiveContext.update_field(field, value, ttl)
update_field(c, field, value, ttl, now) ==
    Expire(IF field = "total_tokens"
           THEN [Written(c) EXCEPT !.has_tokens = TRUE, !.total_tokens = value,
                                   !.updated_at = now]
           ELSE [Written(c) EXCEPT !.fields = @ \cup {field},
                                   !.updated_at = now], ttl)

\* ActiveContext.increment_tokens(amount, ttl): HINCRBY, then updated_at
increment_tokens(c, amount, ttl, now) ==
    Expire([Written(c) EXCEPT !.has_tokens = TRUE,
                              !.total_tokens = @ + amount,
                              !.updated_at = now], ttl)

\* RedisMemoryManager.reset_ttl on the two keys
reset_ttl_chat(t) == IF t = "absent" THEN t ELSE "default_ttl"

reset_ttl_context(c) == Expire(c, "default_ttl")

\* MemoryManager.update_active_context: each field given is set through its
\* setter, which passes no ttl
update_active_context(c, given, now) ==
    LET c1 == IF "current_goal" \in given
              THEN update_field(c, "current_goal", 0, "none", now) ELSE c
    IN  IF "extracted_entities" \in given
        THEN update_field(c1, "extracted_entities", 0, "none", now) ELSE c1

----------------------------------------------------------------------------
(* MemoryManager.receive_input, the whole call: append, sliding window,    *)
(* summary check, summary agents, session update, deletion of old rows.    *)
receive_input(role, content) ==
    LET turn == [id |-> nextId, role |-> role, content |-> content,
                 timestamp |-> clock]
        buf == Append(hot, turn)
        evict == NeedsSlidingWindow(buf, max_buffer_messages)
        old == IF evict THEN old_messages(buf, max_buffer_messages) ELSE <<>>
        hot1 == IF evict
                THEN trim_conversation(buf, keep_count(max_buffer_messages))
                ELSE buf
    IN  \E saveOk \in IF CommitTried(old) /\ saveFailures < MaxSaveFailures
                      THEN BOOLEAN ELSE {TRUE} :
        \E countOk \in IF uuidValid THEN BOOLEAN ELSE {TRUE} :
          LET saved == CommitTried(old) /\ saveOk
              cold1 == IF saved THEN cold \o old ELSE cold
              countRead == uuidValid /\ countOk
              fire == countRead /\ CompactionDue(Len(cold1))
          IN  \E o \in IF fire THEN OutcomesFor(customer)
                       ELSE {QuietCompaction} :
              \E fetchTie \in IF fire /\ o.fetchOk /\ HasTies(cold1)
                              THEN TieOrders ELSE {"newest_first"} :
              \E deleteTie \in IF fire /\ TailDeleted(o) /\ HasTies(cold1)
                               THEN TieOrders ELSE {"newest_first"} :
                LET cold2 == IF fire THEN RowsAfterSummary(cold1, o, deleteTie)
                             ELSE cold1
                IN  /\ hot' = hot1
                    /\ chat_ttl' = "default_ttl"
                    /\ ctx' = reset_ttl_context(ctx)
                    /\ ctx_op' = CtxOp(ctx, "reset_ttl", "", 0, clock)
                    /\ cold' = cold2
                    /\ session' = IF fire THEN SessionAfterSummary(session, o)
                                  ELSE session
                    /\ customer' = IF fire
                                   THEN CustomerAfterSummary(session, customer, o)
                                   ELSE customer
                    /\ saveFailures' = IF saveOk THEN saveFailures
                                       ELSE saveFailures + 1
                    /\ nextId' = nextId + 1
                    /\ appended' = appended \cup {nextId}
                    /\ compacted' = compacted \cup (Ids(cold1) \ Ids(cold2))
                    /\ last' = [called |-> TRUE, id |-> nextId,
                                evicted |-> evict,
                                pre |-> IF evict THEN buf ELSE <<>>,
                                old |-> old,
                                saveFailed |->
                                    (old # <<>> /\ uuidValid /\ ~saved),
                                saveSkipped |-> (old # <<>> /\ ~uuidValid),
                                countBefore |-> Len(cold),
                                countAtCheck |-> Len(cold1),
                                countRead |-> IF countRead THEN Len(cold1) ELSE -1,
                                fired |-> fire,
                                completed |-> (fire /\ TailDeleted(o)),
                                outcome |-> o,
                                fetched |-> IF fire /\ o.fetchOk
                                            THEN messages_dict(cold1, fetchTie)
                                            ELSE <<>>,
                                summaryUpdated |->
                                    (fire /\ SummaryUpdated(session, o)),
                                customerMerged |->
                                    (fire /\ CustomerMerged(session, customer, o))]
                    /\ UNCHANGED <<max_buffer_messages, uuidValid>>

\* the orchestrator, the only caller, alternates user and assistant turns
CallerRole == IF nextId % 2 = 1 THEN "user" ELSE "assistant"

\* the sessions row: handoff_reason, and session_metadata as its summary,
\* tags and key_topics keys and the rest of its keys
NoSession == [exists |-> FALSE, handoff_reason |-> None, summary |-> None,
              tags |-> None, key_topics |-> None, rest |-> None]
NewSession == [NoSession EXCEPT !.exists = TRUE]
\* a session that was escalated and summarized before
OldSession == [exists |-> TRUE, handoff_reason |-> Some(HandoffReason),
               summary |-> Some(<<"old summary">>),
               tags |-> List(<<"old tag">>),
               key_topics |-> List(<<"old topic">>),
               rest |-> EscalationKeys]

NoCustomer == [exists |-> FALSE, full_name |-> None]
KnownCustomer == [exists |-> TRUE, full_name |-> None]

NoHandoff == [handoff_required |-> FALSE, risk_level |-> "low",
              policy_flags |-> {}, handoff_reason |-> None]
NoRouting == [task |-> "", handoff_required |-> FALSE, risk_level |-> "low",
              policy_flags |-> {}, handoff_reason |-> None]
NoGuardrail == [approved |-> TRUE, modified_text |-> None]

NoIntent == [clean_intent_text |-> <<>>, intent_code |-> ""]
\* the Phase 1 gather before its two tasks are created
NoPhase1 == [intent |-> [state |-> "none", result |-> NoIntent],
             handoff |-> [state |-> "none", result |-> NoHandoff],
             first |-> "none"]
\* Phase 2.4 not entered
NoOffer == [phase |-> "none", raw_message |-> <<>>, explicit |-> <<>>,
            implicit |-> <<>>, products |-> <<>>, available_combos |-> <<>>,
            selected_combo |-> None, selected_product_combo |-> None,
            heuristic |-> FALSE]

SideInit ==
    /\ phase1 = NoPhase1
    /\ intent_result = NoIntent
    /\ orchestrator_input = None
    /\ offer = NoOffer
    /\ inflight = <<>>

RunInit ==
    /\ SideInit
    /\ phase_trace = <<>>
    /\ pc = "idle"
    /\ runs = 0
    /\ handoff_result = NoHandoff
    /\ orchestrator_result = NoRouting
    /\ sales_result = <<>>
    /\ guardrail_result = NoGuardrail
    /\ final_response_text = None
    /\ handoff_write = "none"

MemInit ==
    /\ hot = <<>>
    /\ cold = <<>>
    /\ nextId = 1
    /\ saveFailures = 0
    /\ appended = {}
    /\ compacted = {}
    /\ last = NoCall
    /\ clock = 0
    /\ chat_ttl = "absent"
    /\ ctx = NoContext
    /\ ctx_op = NoCtxOp

----------------------------------------------------------------------------
(* SpecMem: a MemoryManager driven by receive_input calls alone *)

InitMem ==
    /\ max_buffer_messages \in (1..SmallBufferMax) \cup {DefaultMaxBuffer}
    /\ uuidValid \in BOOLEAN
    /\ session \in {NoSession, NewSession}
    /\ customer = NoCustomer
    /\ MemInit
    /\ RunInit

\* one call, the next one at least a second later
ReceiveInput ==
    /\ nextId <= MaxTurns
    /\ receive_input(CallerRole, UserText)
    /\ clock' = clock + 1
    /\ UNCHANGED runVars

NextMem == ReceiveInput

SpecMem == InitMem /\ [][NextMem]_vars

----------------------------------------------------------------------------
(* SpecCompaction: receive_input calls on a conversation whose session     *)
(* row is new or was escalated and summarized before, with or without a    *)
(* customer row; no durable write of an eviction set fails                 *)

InitCompaction ==
    /\ max_buffer_messages = SmallestBuffer
    /\ uuidValid = TRUE
    /\ session \in {NewSession, OldSession}
    /\ customer \in {NoCustomer, KnownCustomer}
    /\ hot = <<>>
    /\ cold = <<>>
    /\ nextId = 1
    /\ saveFailures = MaxSaveFailures
    /\ appended = {}
    /\ compacted = {}
    /\ last = NoCall
    /\ clock = 0
    /\ chat_ttl = "absent"
    /\ ctx = NoContext
    /\ ctx_op = NoCtxOp
    /\ RunInit

NextCompaction == ReceiveInput

SpecCompaction == InitCompaction /\ [][NextCompaction]_vars

----------------------------------------------------------------------------
(* SpecOrder: receive_input calls that may follow each other within one    *)
(* second of time.time()                                                   *)

\* the smallest buffer that evicts, and no durable write of an eviction set
\* fails in these behaviours
InitOrder ==
    /\ max_buffer_messages = SmallestBuffer
    /\ uuidValid = TRUE
    /\ session = NewSession
    /\ customer = NoCustomer
    /\ hot = <<>>
    /\ cold = <<>>
    /\ nextId = 1
    /\ saveFailures = MaxSaveFailures
    /\ appended = {}
    /\ compacted = {}
    /\ last = NoCall
    /\ clock = 0
    /\ chat_ttl = "absent"
    /\ ctx = NoContext
    /\ ctx_op = NoCtxOp
    /\ RunInit

\* calls made so far after which the clock did not advance
SameSecondCalls == nextId - 1 - clock

ReceiveInputAt ==
    /\ nextId <= MaxTurns
    /\ receive_input(CallerRole, UserText)
    /\ \E elapsed \in IF SameSecondCalls < MaxSameSecond THEN {0, 1} ELSE {1} :
         clock' = clock + elapsed
    /\ UNCHANGED runVars

NextOrder == ReceiveInputAt

SpecOrder == InitOrder /\ [][NextOrder]_vars

----------------------------------------------------------------------------
(* SpecCtx: the operations of ActiveContext, RedisMemoryManager and        *)
(* MemoryManager on the context hash, between receive_input calls          *)

InitCtx ==
    /\ max_buffer_messages = DefaultMaxBuffer
    /\ uuidValid = TRUE
    /\ session = NewSession
    /\ customer = NoCustomer
    /\ MemInit
    /\ RunInit

\* the ttl argument: None, or the manager's default_ttl
TtlArgs == {"none", "default_ttl"}

\* values written to a field, and amounts added to total_tokens
FieldValues == {0, 2}
TokenAmounts == {-1, 1}

CtxReceiveInput ==
    /\ nextId <= MaxCtxTurns
    /\ receive_input(CallerRole, UserText)
    /\ clock' = clock + 1
    /\ UNCHANGED runVars

\* ActiveContext.initialize
Initialize ==
    /\ \E ttl \in TtlArgs : ctx' = initialize(ctx, ttl, clock)
    /\ ctx_op' = CtxOp(ctx, "initialize", "", 0, clock)
    /\ UNCHANGED <<pgVars, hot, chat_ttl, clock, runVars>>

\* ActiveContext.update_field
UpdateField ==
    /\ \E field \in ContextFields, value \in FieldValues, ttl \in TtlArgs :
         /\ ctx' = update_field(ctx, field, value, ttl, clock)
         /\ ctx_op' = CtxOp(ctx, "update_field", field, 0, clock)
    /\ UNCHANGED <<pgVars, hot, chat_ttl, clock, runVars>>

\* ActiveContext.increment_tokens
IncrementTokens ==
    /\ \E amount \in TokenAmounts, ttl \in TtlArgs :
         /\ ctx.total_tokens + amount \in -MaxTokens..MaxTokens
         /\ ctx' = increment_tokens(ctx, amount, ttl, clock)
         /\ ctx_op' = CtxOp(ctx, "increment_tokens", "total_tokens", amount,
                            clock)
    /\ UNCHANGED <<pgVars, hot, chat_ttl, clock, runVars>>

\* RedisMemoryManager.update_context_field: update_field, then reset_ttl
UpdateContextField ==
    /\ \E field \in ContextFields, value \in FieldValues :
         /\ ctx' = reset_ttl_context(
                      update_field(ctx, field, value, "default_ttl", clock))
         /\ ctx_op' = CtxOp(ctx, "update_context_field", field, 0, clock)
    /\ chat_ttl' = reset_ttl_chat(chat_ttl)
    /\ UNCHANGED <<pgVars, hot, clock, runVars>>

\* MemoryManager.update_active_context
UpdateActiveContext ==
    /\ \E given \in (SUBSET {"current_goal", "extracted_entities"}) \ {{}} :
         ctx' = update_active_context(ctx, given, clock)
    /\ ctx_op' = CtxOp(ctx, "update_active_context", "", 0, clock)
    /\ UNCHANGED <<pgVars, hot, chat_ttl, clock, runVars>>

\* a second of time.time() passes
Tick ==
    /\ clock < MaxClock
    /\ clock' = clock + 1
    /\ UNCHANGED <<pgVars, redisVars, runVars>>

NextCtx ==
    \/ CtxReceiveInput
    \/ Initialize
    \/ UpdateField
    \/ IncrementTokens
    \/ UpdateContextField
    \/ UpdateActiveContext
    \/ Tick

SpecCtx == InitCtx /\ [][NextCtx]_vars

----------------------------------------------------------------------------
(* Analysis steps, as the orchestrator sees them *)

PolicyFlagNames == {"legal", "medical", "financial_risk", "high_technical"}

RiskLevels == {"low", "medium", "high"}

\* AnalyseHandoffAgent.run on unparseable output
HandoffFallback == [handoff_required |-> FALSE, risk_level |-> "low",
                    policy_flags |-> {}, handoff_reason |-> None]

\* AnalyseHandoffOutput values: no flag, one flag or every flag raised; the
\* reason of a required handoff may be left null, and no reason is given
\* for a handoff that is not required
HandoffOutputs ==
    {o \in [handoff_required : BOOLEAN, risk_level : RiskLevels,
            policy_flags : {{}, {"legal"}, PolicyFlagNames},
            handoff_reason : {None, Some(HandoffReason)}] :
        o.handoff_required \/ o.handoff_reason = None}

\* what the routing LLM hands back: text without JSON, or a JSON object that
\* names a task and either repeats the other fields or leaves them out
RoutingReplies ==
    {[kind |-> "unparseable", task |-> "", full |-> FALSE]} \cup
    {[kind |-> "json", task |-> t, full |-> f] :
        t \in {"sales_task", "human_handle", "other_task"}, f \in BOOLEAN}

\* the fallback dict of OrchestratorAgent.run
FallbackTask(input) ==
    IF input.handoff_required THEN "human_handle" ELSE "sales_task"

\* OrchestratorAgent.run: the reply parsed, missing fields filled from the
\* input (handoff_reason is not among the fields filled)
OrchestratorAgentRun(input, reply) ==
    IF reply.kind = "unparseable"
    THEN [task |-> FallbackTask(input),
          handoff_required |-> input.handoff_required,
          risk_level |-> input.risk_level,
          policy_flags |-> input.policy_flags,
          handoff_reason |-> input.handoff_reason]
    ELSE [task |-> reply.task,
          handoff_required |-> input.handoff_required,
          risk_level |-> input.risk_level,
          policy_flags |-> input.policy_flags,
          handoff_reason |-> IF reply.full THEN input.handoff_reason ELSE None]

SalesFallbackText == <<"Xin chao! Toi co the giup gi cho ban?">>

\* SalesAgentOutput.response_text: a reply, the agent's fallback, or ""
SalesTexts == {<<"sales reply">>, SalesFallbackText, <<>>}

ModifiedText == <<"modified reply">>

\* GuardrailOutput: modified_text "" has been turned into None
GuardrailOutputs ==
    {[approved |-> a, modified_text |-> m] :
        a \in BOOLEAN, m \in {None, Some(ModifiedText)}}

SafeFallback == <<"Minh chua the tra loi chac chan noi dung nay ngay luc nay. ",
                  "Minh se chuyen cho nhan vien ho tro tiep nhe.">>

handoff_note == <<"(Minh da ghi nhan de nhan vien ho tro them)\n\n">>

\* a rejected response let through unchanged
GuardedTextNoFallback(guardrail, response_text) ==
    IF guardrail.modified_text.kind = "text" /\ guardrail.modified_text.val # <<>>
    THEN guardrail.modified_text.val
    ELSE response_text

\* guardrail_result.modified_text or sales_result.response_text, else fallback
GuardedText(guardrail, response_text) ==
    IF guardrail.approved
    THEN IF guardrail.modified_text.kind = "text"
            /\ guardrail.modified_text.val # <<>>
         THEN guardrail.modified_text.val
         ELSE response_text
    ELSE SafeFallback

\* the escalation note is put before the text when the task is human_handle
FinalResponseText(task, guardrail, response_text) ==
    IF task = "human_handle"
    THEN handoff_note \o GuardedText(guardrail, response_text)
    ELSE GuardedText(guardrail, response_text)

SalesTasks == {"sales_task", "human_handle"}

\* f"An error occurred: {str(e)}"
ErrorMessage == <<"An error occurred: ", "exception text">>

----------------------------------------------------------------------------
(* WorkflowOrchestrator.process_user_message, step by step *)

\* earlier receive_input calls of the conversation
PriorTurn ==
    /\ pc = "idle"
    /\ runs = 0
    /\ nextId <= MaxPriorTurns
    /\ receive_input(CallerRole, UserText)
    /\ clock' = clock + 1
    /\ UNCHANGED runVars

\* the step markers process_user_message appends to phase_trace before the
\* step they name (the debug previews of prompts and shop names are left out)
Phase1Mark == "Phase 1: IntentAgent + AnalyseHandoffAgent (parallel)"
RoutingMark == "Phase 1: OrchestratorAgent (task selection)"
SalesMarks == <<"Phase 2.1: PredictRequirementAgent",
                "Phase 2.2: ClassifyStepAgent",
                "Phase 2.3: ProfileAgent",
                "Phase 2.4: UpSalesCrossSalesAgent",
                "Phase 2.5: SalesAgent">>
GuardrailMark == "Phase 3: GuardrailAgent"
EscalationMark == "Phase 3: Escalation note (human_handle)"
AssistantMark == "Phase 3: receive_input (assistant)"

GuardrailMarks(task) ==
    IF task = "human_handle" THEN <<GuardrailMark, EscalationMark>>
    ELSE <<GuardrailMark>>

\* the markers appended by the time the step at pc raises: the marker of a
\* step is appended before the step is run
RaisedMarks(at) ==
    CASE at = "Received" -> {<<Phase1Mark>>}
      [] at = "Analyzed" -> {<<RoutingMark>>}
      [] at = "Loaded" -> {SubSeq(SalesMarks, 1, k) : k \in 1..Len(SalesMarks)}
      [] at = "SalesDone" -> {<<GuardrailMark>>}

\* Phase 0: receive_input (user)
StartRun ==
    /\ pc \in {"idle", "Responded", "Raised"}
    /\ runs < MaxRuns
    /\ receive_input("user", UserText)
    /\ clock' = clock + 1
    /\ pc' = "Received"
    /\ runs' = runs + 1
    /\ handoff_result' = NoHandoff
    /\ orchestrator_result' = NoRouting
    /\ sales_result' = <<>>
    /\ guardrail_result' = NoGuardrail
    /\ final_response_text' = None
    /\ handoff_write' = "none"
    /\ phase_trace' = <<"Phase 0: receive_input (user)">>
    /\ UNCHANGED sideVars

\* Phase 1: IntentAgent and AnalyseHandoffAgent under asyncio.gather
Phase1 ==
    /\ pc = "Received"
    /\ \E out \in HandoffOutputs \cup {HandoffFallback} :
         /\ handoff_result' = out
         /\ pc' = "Analyzed"
    /\ phase_trace' = Append(phase_trace, Phase1Mark)
    /\ UNCHANGED <<sideVars, memVars, runs, orchestrator_result, sales_result,
                   guardrail_result, final_response_text, handoff_write>>

\* Phase 1: OrchestratorAgent (task selection), then the intent code is
\* put into the active context
RouteTask ==
    /\ pc = "Analyzed"
    /\ \E reply \in RoutingReplies :
         orchestrator_result' = OrchestratorAgentRun(handoff_result, reply)
    /\ ctx' = update_active_context(ctx, {"extracted_entities"}, clock)
    /\ ctx_op' = CtxOp(ctx, "update_active_context", "extracted_entities", 0,
                       clock)
    /\ pc' = "Routed"
    /\ phase_trace' = phase_trace \o <<RoutingMark, "Phase 1 result",
                                       "Phase 2: Sales workflow">>
    /\ UNCHANGED <<sideVars, pgVars, hot, chat_ttl, clock, runs, handoff_result,
                   sales_result, guardrail_result, final_response_text,
                   handoff_write>>

\* Phase 2.0: load short memory
LoadShortMemory ==
    /\ pc = "Routed"
    /\ orchestrator_result.task \in SalesTasks
    /\ hot' = get_conversation_history(hot, ShortMemory)
    /\ pc' = "Loaded"
    /\ phase_trace' = Append(phase_trace, "Phase 2.0: Load short memory")
    /\ UNCHANGED <<sideVars, pgVars, chat_ttl, ctx, ctx_op, clock, runs,
                   handoff_result, orchestrator_result, sales_result,
                   guardrail_result, final_response_text, handoff_write>>

\* Phases 2.1 to 2.5: requirement, step, profile, combo, sales response
SalesFlow ==
    /\ pc = "Loaded"
    /\ sales_result' \in SalesTexts
    /\ pc' = "SalesDone"
    /\ phase_trace' = phase_trace \o SalesMarks
    /\ UNCHANGED <<sideVars, memVars, runs, handoff_result, orchestrator_result,
                   guardrail_result, final_response_text, handoff_write>>

\* Phase 3: GuardrailAgent, then the escalation note
Guardrail ==
    /\ pc = "SalesDone"
    /\ \E g \in GuardrailOutputs :
         /\ guardrail_result' = g
         /\ final_response_text' =
              Some(FinalResponseText(orchestrator_result.task, g, sales_result))
    /\ pc' = "Guarded"
    /\ phase_trace' = phase_trace \o GuardrailMarks(orchestrator_result.task)
    /\ UNCHANGED <<sideVars, memVars, runs, handoff_result, orchestrator_result,
                   sales_result, handoff_write>>

\* the assistant turn stored the sales text as it was before the guardrail
AssistantContentUnguarded(final, sales) == sales

\* content=final_response_text of the assistant receive_input
AssistantContent(final, sales) == final.val

\* Phase 3: receive_input (assistant)
WriteAssistant ==
    /\ pc = "Guarded"
    /\ receive_input("assistant",
                     AssistantContent(final_response_text, sales_result))
    /\ clock' = clock + 1
    /\ pc' = "Stored"
    /\ phase_trace' = Append(phase_trace, AssistantMark)
    /\ UNCHANGED <<sideVars, runs, handoff_result, orchestrator_result, sales_result,
                   guardrail_result, final_response_text, handoff_write>>

\* a task outside {sales_task, human_handle} skips the sales flow and the
\* assistant turn is built from the unassigned final_response_text
UnboundResponse ==
    /\ pc = "Routed"
    /\ orchestrator_result.task \notin SalesTasks
    /\ pc' = "Raised"
    /\ phase_trace' = Append(phase_trace, AssistantMark)
    /\ UNCHANGED <<sideVars, memVars, runs, handoff_result, orchestrator_result,
                   sales_result, guardrail_result, final_response_text,
                   handoff_write>>

\* an analysis step's LLM call fails: agent.run raises out of the pipeline
StepRaises ==
    /\ pc \in {"Received", "Analyzed", "Loaded", "SalesDone"}
    /\ pc' = "Raised"
    /\ phase_trace' \in {phase_trace \o marks : marks \in RaisedMarks(pc)}
    /\ UNCHANGED <<sideVars, memVars, runs, handoff_result, orchestrator_result,
                   sales_result, guardrail_result, final_response_text,
                   handoff_write>>

\* how the durable handoff update of a run ends: not tried for another task,
\* refused for an invalid session id, failed in the store, or committed
HandoffWrites(task) ==
    IF task # "human_handle" THEN {"skipped"}
    ELSE IF ~uuidValid THEN {"invalid_id"}
    ELSE {"ok", "error"}

\* get_or_create_session then update_session_handoff, inside try/except
SessionAfterHandoff(sess, result, outcome) ==
    IF outcome = "ok"
    THEN [sess EXCEPT !.exists = TRUE,
                      !.handoff_reason = IF result.handoff_reason.kind = "none"
                                         THEN @ ELSE result.handoff_reason,
                      !.summary = EscalationTrace,
                      !.rest = EscalationKeys]
    ELSE sess

\* a failed durable update raised out of process_user_message
HandoffWriteExitRaises(outcome) ==
    IF outcome \in {"error", "invalid_id"} THEN "Raised" ELSE "Responded"

\* except Exception around the durable update: the run returns either way
HandoffWriteExit(outcome) == "Responded"

\* the durable handoff update of a human_handle run, then return
PersistHandoff ==
    /\ pc = "Stored"
    /\ \E outcome \in HandoffWrites(orchestrator_result.task) :
         /\ session' = SessionAfterHandoff(session, orchestrator_result, outcome)
         /\ handoff_write' = outcome
         /\ pc' = HandoffWriteExit(outcome)
    /\ UNCHANGED <<sideVars, phase_trace, max_buffer_messages, uuidValid, cold, nextId, saveFailures,
                   appended, compacted, last, customer, redisVars, clock, runs,
                   handoff_result, orchestrator_result, sales_result,
                   guardrail_result, final_response_text>>

\* app.main: the text put into the chat message when the run is over
MainShows ==
    CASE pc = "Responded" -> final_response_text.val
      [] pc = "Raised" -> ErrorMessage
      [] OTHER -> <<>>

Init ==
    /\ max_buffer_messages = DefaultMaxBuffer
    /\ uuidValid \in BOOLEAN
    /\ session = NoSession
    /\ customer = NoCustomer
    /\ MemInit
    /\ RunInit

Next ==
    \/ PriorTurn
    \/ StartRun
    \/ Phase1
    \/ RouteTask
    \/ LoadShortMemory
    \/ SalesFlow
    \/ Guardrail
    \/ WriteAssistant
    \/ UnboundResponse
    \/ StepRaises
    \/ PersistHandoff

Spec == Init /\ [][Next]_vars

----------------------------------------------------------------------------
(* SpecJoin: Phase 1 of process_user_message with the two agent calls of   *)
(* asyncio.gather as tasks that finish in either order                      *)

\* IntentAgentOutput values: the reply parsed, or the fallback dict built
\* from a reply without JSON
IntentOutputs ==
    {[clean_intent_text |-> <<"asks the price">>, intent_code |-> "price_inquiry"],
     [clean_intent_text |-> <<"reply text">>, intent_code |-> "unknown"]}

\* OrchestratorAgentInput(...) built from both results (emotion_score, which
\* no later step of the model reads, is left out)
OrchestratorAgentInput(intent, handoff) ==
    [clean_intent_text |-> intent.clean_intent_text,
     intent_code |-> intent.intent_code,
     policy_flags |-> handoff.policy_flags,
     handoff_required |-> handoff.handoff_required,
     handoff_reason |-> handoff.handoff_reason,
     risk_level |-> handoff.risk_level]

\* a wait that returns as soon as one of the two tasks has finished
GatherAnyDone(p) == p.intent.state = "done" \/ p.handoff.state = "done"

\* asyncio.gather returns the list of results once every task has finished
GatherDone(p) == p.intent.state = "done" /\ p.handoff.state = "done"

\* asyncio.gather without return_exceptions raises the first exception of a
\* task to its awaiter; the other task is not cancelled
GatherRaised(p) == p.intent.state = "raised" \/ p.handoff.state = "raised"

FirstDone(p, name) == IF p.first = "none" THEN name ELSE p.first

joinFrame == <<memVars, runs, orchestrator_result, sales_result,
               guardrail_result, final_response_text, handoff_write, offer,
               inflight>>

\* asyncio.gather wraps both coroutines in tasks and suspends the run
GatherStart ==
    /\ pc = "Received"
    /\ phase1' = [intent |-> [state |-> "running", result |-> NoIntent],
                  handoff |-> [state |-> "running", result |-> NoHandoff],
                  first |-> "none"]
    /\ phase_trace' = Append(phase_trace, Phase1Mark)
    /\ pc' = "Gathering"
    /\ UNCHANGED <<joinFrame, handoff_result, intent_result,
                   orchestrator_input>>

\* IntentAgent.run returns
IntentReturns ==
    /\ phase1.intent.state = "running"
    /\ \E out \in IntentOutputs :
         phase1' = [phase1 EXCEPT !.intent = [state |-> "done", result |-> out],
                                  !.first = FirstDone(phase1, "intent")]
    /\ UNCHANGED <<joinFrame, pc, phase_trace, handoff_result, intent_result,
                   orchestrator_input>>

\* IntentAgent.run raises: the LLM call failed or the output did not validate
IntentRaises ==
    /\ phase1.intent.state = "running"
    /\ phase1' = [phase1 EXCEPT !.intent.state = "raised"]
    /\ UNCHANGED <<joinFrame, pc, phase_trace, handoff_result, intent_result,
                   orchestrator_input>>

\* AnalyseHandoffAgent.run returns
HandoffReturns ==
    /\ phase1.handoff.state = "running"
    /\ \E out \in HandoffOutputs \cup {HandoffFallback} :
         phase1' = [phase1 EXCEPT !.handoff = [state |-> "done", result |-> out],
                                  !.first = FirstDone(phase1, "handoff")]
    /\ UNCHANGED <<joinFrame, pc, phase_trace, handoff_result, intent_result,
                   orchestrator_input>>

\* AnalyseHandoffAgent.run raises
HandoffRaises ==
    /\ phase1.handoff.state = "running"
    /\ phase1' = [phase1 EXCEPT !.handoff.state = "raised"]
    /\ UNCHANGED <<joinFrame, pc, phase_trace, handoff_result, intent_result,
                   orchestrator_input>>

\* the await on gather returns: the two results are bound and the
\* OrchestratorAgentInput is built from them
GatherReturns ==
    /\ pc = "Gathering"
    /\ GatherDone(phase1)
    /\ ~GatherRaised(phase1)
    /\ intent_result' = phase1.intent.result
    /\ handoff_result' = phase1.handoff.result
    /\ orchestrator_input' =
         [kind |-> "input",
          val |-> OrchestratorAgentInput(phase1.intent.result,
                                         phase1.handoff.result)]
    /\ pc' = "Analyzed"
    /\ UNCHANGED <<joinFrame, phase1, phase_trace>>

\* the await on gather raises out of process_user_message
GatherRaises ==
    /\ pc = "Gathering"
    /\ GatherRaised(phase1)
    /\ pc' = "Raised"
    /\ UNCHANGED <<joinFrame, phase1, phase_trace, handoff_result,
                   intent_result, orchestrator_input>>

\* OrchestratorAgent.run on the input built, then update_active_context
RouteJoined ==
    /\ pc = "Analyzed"
    /\ \E reply \in RoutingReplies :
         orchestrator_result' = OrchestratorAgentRun(orchestrator_input.val, reply)
    /\ ctx' = update_active_context(ctx, {"extracted_entities"}, clock)
    /\ ctx_op' = CtxOp(ctx, "update_active_context", "extracted_entities", 0,
                       clock)
    /\ pc' = "Routed"
    /\ phase_trace' = phase_trace \o <<RoutingMark, "Phase 1 result",
                                       "Phase 2: Sales workflow">>
    /\ UNCHANGED <<sideVars, pgVars, hot, chat_ttl, clock, runs, handoff_result,
                   sales_result, guardrail_result, final_response_text,
                   handoff_write>>

NextJoin ==
    \/ StartRun
    \/ GatherStart
    \/ IntentReturns
    \/ IntentRaises
    \/ HandoffReturns
    \/ HandoffRaises
    \/ GatherReturns
    \/ GatherRaises
    \/ RouteJoined

SpecJoin == Init /\ [][NextJoin]_vars

----------------------------------------------------------------------------
(* Phase 2.4 of process_user_message: the candidate combos, the selection  *)
(* of the upsell agent and the heuristic fallback. A str is a sequence of   *)
(* its characters; a letter with a diacritic is one character, written in  *)
(* VNI notation (a1 for a with acute, e6 for e with circumflex, e62 for e   *)
(* with circumflex and grave, o7 for o with horn).                          *)

UpperCase == <<"A1", "C", "D", "E", "H", "I", "K", "M", "O", "P", "R", "S",
               "T", "U">>
LowerCase == <<"a1", "c", "d", "e", "h", "i", "k", "m", "o", "p", "r", "s",
               "t", "u">>

\* str.lower on one character
lower_char(c) ==
    IF \E i \in 1..Len(UpperCase) : UpperCase[i] = c
    THEN LowerCase[CHOOSE i \in 1..Len(UpperCase) : UpperCase[i] = c]
    ELSE c

lower(t) == [i \in 1..Len(t) |-> lower_char(t[i])]

\* str.strip: the blanks at both ends removed
strip(t) ==
    LET inked == {i \in 1..Len(t) : t[i] # " "}
    IN  IF inked = {} THEN <<>>
        ELSE SubSeq(t, CHOOSE i \in inked : \A j \in inked : i <= j,
                       CHOOSE i \in inked : \A j \in inked : i >= j)

\* str.replace(old, new) for one-character old and new
replace(t, old, new) == [i \in 1..Len(t) |-> IF t[i] = old THEN new ELSE t[i]]

\* " ".join(parts)
RECURSIVE join(_)
join(parts) ==
    IF parts = <<>> THEN <<>>
    ELSE IF Len(parts) = 1 THEN parts[1]
    ELSE parts[1] \o <<" ">> \o join(Tail(parts))

\* needle in hay, on str
contains(hay, needle) ==
    \E i \in 0..(Len(hay) - Len(needle)) :
        SubSeq(hay, i + 1, i + Len(needle)) = needle

\* [f(x) for x in items]
NormalizedAll(items, f(_)) == [i \in 1..Len(items) |-> f(items[i])]

_normalize_text(t) == lower(strip(t))

hoodie == <<"h", "o", "o", "d", "i", "e">>
ao == <<"a", "o">>
ao_acute == <<"a1", "o">>
thun == <<"t", "h", "u", "n">>
bao_nhieu == <<"b", "a", "o", " ", "n", "h", "i", "e6", "u">>
gia_acute == <<"g", "i", "a1">>

\* the keywords of maybe_price_intent
PriceKeywords ==
    {gia_acute, bao_nhieu, <<"p", "r", "i", "c", "e">>,
     <<"c", "o", "s", "t">>, <<"t", "i", "e62", "n">>}

\* keyword_map: the keywords of each product family
keyword_map ==
    {{hoodie, join(<<ao_acute, hoodie>>), join(<<ao, hoodie>>)},
     {join(<<ao_acute, thun>>), join(<<ao, thun>>),
      <<"t", "-", "s", "h", "i", "r", "t">>, <<"t", "e", "e">>},
     {join(<<ao_acute, <<"s", "o7">>, <<"m", "i">> >>),
      join(<<ao, <<"s", "o">>, <<"m", "i">> >>),
      join(<<<<"s", "o7">>, <<"m", "i">> >>),
      join(<<<<"s", "o">>, <<"m", "i">> >>)}}

maybe_price_intent(raw_message) ==
    \E kw \in PriceKeywords : contains(_normalize_text(raw_message), kw)

\* the first combo of the list that passes the test, or None
FirstCombo(combos, Test(_)) ==
    LET hits == {i \in 1..Len(combos) : Test(combos[i])}
    IN  IF hits = {} THEN None
        ELSE [kind |-> "combo",
              val |-> combos[CHOOSE i \in hits : \A j \in hits : i <= j]]

_heuristic_pick_combo(raw_message, explicit, implicit, combos) ==
    LET haystack == join(<<_normalize_text(raw_message)>>
                         \o NormalizedAll(explicit, _normalize_text)
                         \o NormalizedAll(implicit, _normalize_text))
        token(p) == replace(_normalize_text(p), "_", " ")
        NameInHaystack(c) ==
            \E i \in 1..Len(c.products) :
                token(c.products[i]) # <<>>
                    /\ contains(haystack, token(c.products[i]))
        combo_name(c) == join(<<_normalize_text(c.combo_id)>>
                              \o NormalizedAll(c.products, _normalize_text))
        SharesFamily(c) ==
            \E kws \in keyword_map :
                /\ \E kw \in kws : contains(haystack, kw)
                /\ \E kw \in kws : contains(combo_name(c), kw)
        byName == FirstCombo(combos, NameInHaystack)
    IN  IF strip(haystack) = <<>> THEN None
        ELSE IF byName # None THEN byName
        ELSE FirstCombo(combos, SharesFamily)

\* rows of table products of the demo shop: sku, name and a price
HoodieProduct == [sku |-> <<"S", "K", "U", "-", "H">>,
                  name |-> <<"A1", "o", " ", "H", "o", "o", "d", "i", "e">>,
                  price |-> Some(<<"499000">>)]
ThunProduct == [sku |-> <<"S", "K", "U", "-", "T">>,
                name |-> <<"A1", "o", " ", "t", "h", "u", "n">>,
                price |-> Some(<<"199000">>)]
DemoHoodieProduct == [sku |-> <<"D", "E", "M", "O", "-", "0", "3">>,
                      name |-> <<"a", "o", "_", "h", "o", "o", "d", "i", "e">>,
                      price |-> Some(<<"499000">>)]
DemoThunProduct == [sku |-> <<"D", "E", "M", "O", "-", "0", "1">>,
                    name |-> <<"a", "o", "_", "t", "h", "u", "n", "_",
                               "b", "a", "s", "i", "c">>,
                    price |-> Some(<<"199000">>)]

CatalogProducts == {HoodieProduct, ThunProduct, DemoHoodieProduct,
                    DemoThunProduct}

\* largest number of products list_products_for_shop returns
MaxProducts == 2

\* what list_products_for_shop may return: no product, or distinct products
\* in the order of the query
Catalogs ==
    UNION {{c \in [1..n -> CatalogProducts] :
                \A i, j \in 1..n : i # j => c[i] # c[j]} : n \in 0..MaxProducts}

\* ProductCombo(combo_id=(p.sku or p.id), products=[p.name], ..., price=...)
ComboOf(p) == [combo_id |-> p.sku, products |-> <<p.name>>, price |-> p.price]

\* the combos built when the catalog is empty: no price is passed
DemoFallbackCombos ==
    <<[combo_id |-> <<"D", "E", "M", "O", "-", "0", "1">>,
       products |-> <<DemoThunProduct.name>>, price |-> None],
      [combo_id |-> <<"D", "E", "M", "O", "-", "0", "2">>,
       products |-> << <<"a", "o", "_", "s", "o", "_", "m", "i">> >>,
       price |-> None]>>

\* ProductCombo validation: price is a required field
ProductComboValid(c) == c.price # None

USE_DB_CATALOG == TRUE

\* the list comprehension over the products, then the fallback when it is
\* empty; the combos are validated as they are constructed
available_combos(products) ==
    LET fromDb == [i \in 1..Len(products) |-> ComboOf(products[i])]
        combos == IF fromDb = <<>> THEN DemoFallbackCombos ELSE fromDb
    IN  IF \A i \in 1..Len(combos) : ProductComboValid(combos[i])
        THEN [raised |-> FALSE, combos |-> combos]
        ELSE [raised |-> TRUE, combos |-> <<>>]

\* the messages of the user
HoodiePriceMessage == join(<<gia_acute, ao_acute, hoodie, bao_nhieu>>)
HoodieMessage == join(<<ao_acute, hoodie>>)
ShoutedPriceMessage ==
    <<" ", "H", "O", "O", "D", "I", "E", " ", "P", "R", "I", "C", "E", " ">>
RawMessages == {HoodiePriceMessage, HoodieMessage, ShoutedPriceMessage}

\* explicit_requirements of the requirement prediction, which reads the
\* short memory as well as the message
ExplicitRequirements == {<<>>, <<join(<<ao_acute, thun>>)>>}
ImplicitRequirements == {<<>>}

UnknownCombo == <<"X">>

\* selected_combo of the upsell agent: null, the id of a candidate, or an
\* id that is on no candidate
SelectedCombos(combos) ==
    {None, Some(UnknownCombo)} \cup {Some(combos[i].combo_id) : i \in 1..Len(combos)}

\* next((c for c in available_combos if c.combo_id == selected), None)
MatchSelected(combos, selected) ==
    IF selected = None THEN None
    ELSE FirstCombo(combos, LAMBDA c : c.combo_id = selected.val)

InitOffer ==
    /\ max_buffer_messages = DefaultMaxBuffer
    /\ uuidValid = TRUE
    /\ session = NoSession
    /\ customer = NoCustomer
    /\ MemInit
    /\ phase_trace = <<>>
    /\ pc = "idle"
    /\ runs = 0
    /\ handoff_result = NoHandoff
    /\ orchestrator_result = NoRouting
    /\ sales_result = <<>>
    /\ guardrail_result = NoGuardrail
    /\ final_response_text = None
    /\ handoff_write = "none"
    /\ phase1 = NoPhase1
    /\ intent_result = NoIntent
    /\ orchestrator_input = None
    /\ inflight = <<>>
    /\ \E m \in RawMessages, e \in ExplicitRequirements,
          i \in ImplicitRequirements :
         offer = [NoOffer EXCEPT !.phase = "Requirements", !.raw_message = m,
                                 !.explicit = e, !.implicit = i]

offerFrame == <<memVars, pc, runs, handoff_result, orchestrator_result,
                sales_result, guardrail_result, final_response_text,
                handoff_write, phase_trace, phase1, intent_result,
                orchestrator_input, inflight>>

\* Phase 2.4a: the candidate combos are built from the catalog
LoadCatalog ==
    /\ offer.phase = "Requirements"
    /\ USE_DB_CATALOG
    /\ \E products \in Catalogs :
         LET built == available_combos(products)
         IN  offer' = [offer EXCEPT
                         !.phase = IF built.raised THEN "Raised"
                                   ELSE "Candidates",
                         !.products = products,
                         !.available_combos = built.combos]
    /\ UNCHANGED offerFrame

\* the upsell agent returns, its selection is looked up among the
\* candidates, and the heuristic fallback is applied
SelectCombo ==
    /\ offer.phase = "Candidates"
    /\ \E selected \in SelectedCombos(offer.available_combos) :
         LET matched == MatchSelected(offer.available_combos, selected)
             fallback == matched = None /\ maybe_price_intent(offer.raw_message)
         IN  offer' = [offer EXCEPT
                         !.phase = "Selected",
                         !.selected_combo = selected,
                         !.heuristic = fallback,
                         !.selected_product_combo =
                             IF fallback
                             THEN _heuristic_pick_combo(offer.raw_message,
                                      offer.explicit, offer.implicit,
                                      offer.available_combos)
                             ELSE matched]
    /\ UNCHANGED offerFrame

NextOffer == LoadCatalog \/ SelectCombo

SpecOffer == InitOffer /\ [][NextOffer]_vars

----------------------------------------------------------------------------
(* SpecRace: receive_input calls of one MemoryManager that interleave. A    *)
(* call runs without suspension up to the awaited summary-agent calls of    *)
(* _trigger_summary_agents (the database calls are synchronous); while it   *)
(* is suspended there the event loop may run another call.                  *)

\* receive_input calls made in the interleaved view
MaxRaceTurns == 54

\* a call that reaches asyncio.gather in _trigger_summary_agents: the turn
\* is appended, the window applied and saved, the count read, the rows
\* fetched and the old summary read; the call is then suspended
receive_input_suspends(role, content) ==
    LET turn == [id |-> nextId, role |-> role, content |-> content,
                 timestamp |-> clock]
        buf == Append(hot, turn)
        evict == NeedsSlidingWindow(buf, max_buffer_messages)
        old == IF evict THEN old_messages(buf, max_buffer_messages) ELSE <<>>
        hot1 == IF evict
                THEN trim_conversation(buf, keep_count(max_buffer_messages))
                ELSE buf
        cold1 == IF CommitTried(old) THEN cold \o old ELSE cold
    IN  /\ uuidValid
        /\ CompactionDue(Len(cold1))
        /\ \E fetchTie \in IF HasTies(cold1) THEN TieOrders
                           ELSE {"newest_first"} :
             /\ inflight' = Append(inflight,
                   [call |-> nextId, count |-> Len(cold1),
                    messages |-> messages_dict(cold1, fetchTie),
                    old_summary |-> session.summary])
             /\ last' = [NoCall EXCEPT
                           !.called = TRUE, !.id = nextId, !.evicted = evict,
                           !.pre = IF evict THEN buf ELSE <<>>, !.old = old,
                           !.saveFailed = (old # <<>> /\ ~CommitTried(old)),
                           !.countBefore = Len(cold),
                           !.countAtCheck = Len(cold1),
                           !.countRead = Len(cold1), !.fired = TRUE,
                           !.fetched = messages_dict(cold1, fetchTie)]
        /\ hot' = hot1
        /\ chat_ttl' = "default_ttl"
        /\ ctx' = reset_ttl_context(ctx)
        /\ ctx_op' = CtxOp(ctx, "reset_ttl", "", 0, clock)
        /\ cold' = cold1
        /\ nextId' = nextId + 1
        /\ appended' = appended \cup {nextId}
        /\ UNCHANGED <<session, customer, saveFailures, compacted,
                       max_buffer_messages, uuidValid>>

raceFrame == <<pc, runs, handoff_result, orchestrator_result, sales_result,
               guardrail_result, final_response_text, handoff_write,
               phase_trace, phase1, intent_result, orchestrator_input, offer>>

\* a call that does not reach the summary agents runs to its end
CallCompletes ==
    /\ nextId <= MaxRaceTurns
    /\ receive_input(CallerRole, UserText)
    /\ ~last'.fired
    /\ clock' = clock + 1
    /\ UNCHANGED <<raceFrame, inflight>>

\* a call that fires compaction is suspended in the summary-agent calls
CallSuspends ==
    /\ nextId <= MaxRaceTurns
    /\ receive_input_suspends(CallerRole, UserText)
    /\ clock' = clock + 1
    /\ UNCHANGED raceFrame

Without(seq, i) == SubSeq(seq, 1, i - 1) \o SubSeq(seq, i + 1, Len(seq))

\* the summary-agent calls of a suspended compaction are over: the call
\* goes on to the customer update, the session update and the deletion
CompactionResumes ==
    \E i \in 1..Len(inflight) :
    \E o \in {x \in OutcomesFor(customer) : x.fetchOk} :
    \E deleteTie \in IF TailDeleted(o) /\ HasTies(cold)
                     THEN TieOrders ELSE {"newest_first"} :
      LET rows == RowsAfterSummary(cold, o, deleteTie)
      IN  /\ session' = SessionAfterSummary(session, o)
          /\ customer' = CustomerAfterSummary(session, customer, o)
          /\ cold' = rows
          /\ compacted' = compacted \cup (Ids(cold) \ Ids(rows))
          /\ inflight' = Without(inflight, i)
          /\ UNCHANGED <<raceFrame, max_buffer_messages, uuidValid, hot,
                         nextId, saveFailures, appended, last, clock,
                         chat_ttl, ctx, ctx_op>>

InitRace ==
    /\ max_buffer_messages = SmallestBuffer
    /\ uuidValid = TRUE
    /\ session = NewSession
    /\ customer \in {NoCustomer, KnownCustomer}
    /\ hot = <<>>
    /\ cold = <<>>
    /\ nextId = 1
    /\ saveFailures = MaxSaveFailures
    /\ appended = {}
    /\ compacted = {}
    /\ last = NoCall
    /\ clock = 0
    /\ chat_ttl = "absent"
    /\ ctx = NoContext
    /\ ctx_op = NoCtxOp
    /\ RunInit

NextRace == CallCompletes \/ CallSuspends \/ CompactionResumes

SpecRace == InitRace /\ [][NextRace]_vars

----------------------------------------------------------------------------
(* SpecLong: a conversation long enough for the durable count to reach the *)
(* watermark twice; no durable write of an eviction set fails              *)

\* receive_input calls made in the long conversation
MaxLongTurns == 102

InitLong ==
    /\ max_buffer_messages = SmallestBuffer
    /\ uuidValid = TRUE
    /\ session = NewSession
    /\ customer = NoCustomer
    /\ hot = <<>>
    /\ cold = <<>>
    /\ nextId = 1
    /\ saveFailures = MaxSaveFailures
    /\ appended = {}
    /\ compacted = {}
    /\ last = NoCall
    /\ clock = 0
    /\ chat_ttl = "absent"
    /\ ctx = NoContext
    /\ ctx_op = NoCtxOp
    /\ RunInit

LongReceiveInput ==
    /\ nextId <= MaxLongTurns
    /\ receive_input(CallerRole, UserText)
    /\ clock' = clock + 1
    /\ UNCHANGED runVars

NextLong == LongReceiveInput

SpecLong == InitLong /\ [][NextLong]_vars

----------------------------------------------------------------------------
(* Properties *)

\* process_user_message has a routing result
RoutedPcs == {"Routed", "Loaded", "SalesDone", "Guarded", "Stored", "Responded"}

\* C1: every turn that was appended to the hot buffer and that compaction
\* has not deleted is in the hot buffer or in the cold archive.
C1_NoTurnLost ==
    (appended \ compacted) \subseteq (Ids(hot) \cup Ids(cold))

\* C2: when the durable write of the eviction set fails, the hot buffer
\* after the call is the buffer as it was before the eviction step.
C2_FailedWriteKeepsBuffer ==
    last.saveFailed => hot = last.pre

\* C3: after each receive_input call the hot buffer holds at most
\* max_buffer_messages turns, or the eviction of that call failed.
C3_BufferBounded ==
    last.called => (Len(hot) <= max_buffer_messages \/ last.saveFailed)

\* C4: sliding-window eviction splits the pre-eviction buffer into the
\* eviction set followed by the retained part, the two are disjoint, and the
\* retained part is exactly the newest keep_count turns.
C4_EvictionPartition ==
    last.evicted =>
        /\ last.old \o hot = last.pre
        /\ Ids(last.old) \cap Ids(hot) = {}
        /\ Len(hot) = keep_count(max_buffer_messages)
        /\ hot = LastN(last.pre, keep_count(max_buffer_messages))

\* C5: in each receive_input call compaction fires if and only if the
\* durable turn count read in that call is a strictly positive multiple of
\* the watermark.
C5_FiresIffPositiveMultiple ==
    last.called =>
        (last.fired <=> (last.countRead > 0 /\ last.countRead % Watermark = 0))

\* C5 witness: a call read a count of exactly the watermark and fired.
C5_Witness ==
    last.called /\ last.fired /\ last.countRead = Watermark

\* C6: once compaction has fired for a durable turn count, the next
\* receive_input call that reads the same count does not fire it again.
C6_NoRefire ==
    [][(last.fired /\ last'.id # last.id /\ last'.countRead = last.countRead)
           => ~last'.fired]_vars

\* C7: with the default buffer size and every durable operation succeeding,
\* the call whose eviction takes the durable count from below the watermark
\* to the watermark or more fires compaction, and afterwards the durable
\* count is at most the watermark and the session summary is a non-empty text.
C7_FiftiethTurnCompacts ==
    (/\ last.called
     /\ max_buffer_messages = DefaultMaxBuffer
     /\ saveFailures = 0
     /\ last.countRead = last.countAtCheck
     /\ last.countBefore < Watermark
     /\ last.countAtCheck >= Watermark)
    => (/\ last.fired
        /\ Len(cold) <= Watermark
        /\ session.summary.kind = "text"
        /\ session.summary.val # <<>>)

\* C8: whenever the handoff analysis has handoff_required = true, the task
\* the pipeline routes on is human_handle.
C8_HandoffRoutesToHuman ==
    (pc \in RoutedPcs /\ handoff_result.handoff_required)
        => orchestrator_result.task = "human_handle"

\* C9: whenever the handoff analysis has risk level medium or high, or a
\* policy flag set, the task the pipeline routes on is human_handle.
C9_RiskRoutesToHuman ==
    (/\ pc \in RoutedPcs
     /\ \/ handoff_result.risk_level \in {"medium", "high"}
        \/ handoff_result.policy_flags # {})
        => orchestrator_result.task = "human_handle"

\* C10 as stated: whenever the guardrail rejects, the text returned is the
\* safe fallback string verbatim, for every routed task.
C10_RejectIsFallbackVerbatim ==
    (pc = "Responded" /\ ~guardrail_result.approved)
        => final_response_text = Some(SafeFallback)

\* C10 amended: whenever the guardrail rejects, the text returned is the
\* safe fallback string verbatim when the task is sales_task, and the
\* escalation note followed by the safe fallback string when the task is
\* human_handle, whatever the sales response was.
C10_RejectIsFallback ==
    (pc = "Responded" /\ ~guardrail_result.approved)
        => final_response_text =
             Some(IF orchestrator_result.task = "human_handle"
                  THEN handoff_note \o SafeFallback
                  ELSE SafeFallback)

\* C10 witness: a rejected sales reply of a sales_task run was replaced.
C10_Witness ==
    /\ pc = "Responded"
    /\ ~guardrail_result.approved
    /\ orchestrator_result.task = "sales_task"
    /\ sales_result = <<"sales reply">>
    /\ final_response_text = Some(SafeFallback)

\* process_user_message is over: it returned or it raised
EndedPcs == {"Responded", "Raised"}

\* the three texts a user may be given, with or without the escalation note
AllowedTexts ==
    LET texts == {sales_result, SafeFallback} \cup
                 (IF guardrail_result.modified_text.kind = "text"
                  THEN {guardrail_result.modified_text.val} ELSE {})
    IN  texts \cup {handoff_note \o t : t \in texts}

\* C11: when a message has been handled, the text shown to the user is the
\* approved response, the guardrail's modified response or the safe fallback
\* string; it is never an exception message and never empty.
C11_UserGetsResponse ==
    pc \in EndedPcs =>
        /\ MainShows \in AllowedTexts
        /\ MainShows # ErrorMessage
        /\ MainShows # <<>>

\* C12: every run whose routed task is human_handle ends with a response
\* delivered, and that response is not empty and is the escalation note
\* followed by the guardrail outcome.
C12_HumanHandleAnswered ==
    (pc \in EndedPcs /\ orchestrator_result.task = "human_handle") =>
        /\ pc = "Responded"
        /\ MainShows # <<>>
        /\ MainShows = handoff_note \o GuardedText(guardrail_result, sales_result)

\* C13: when the handoff analysis has handoff_required = true and the
\* durable store is available, after process_user_message returns the
\* session row exists and its handoff_reason is not null.
C13_HandoffPersisted ==
    (/\ pc = "Responded"
     /\ handoff_result.handoff_required
     /\ uuidValid
     /\ handoff_write # "error")
    => (session.exists /\ session.handoff_reason # None)

\* C14: when the durable handoff update of a human_handle run fails, the
\* run still returns, and the text it returns is the text it returns when
\* the update succeeds: the one built from the task, the guardrail result
\* and the sales response.
C14_HandoffWriteBestEffort ==
    handoff_write \in {"error", "invalid_id"} =>
        /\ pc = "Responded"
        /\ final_response_text =
             Some(FinalResponseText(orchestrator_result.task, guardrail_result,
                                    sales_result))

\* C14 witness: a run returned its text after the durable update failed.
C14_Witness ==
    /\ pc = "Responded"
    /\ handoff_write = "error"
    /\ orchestrator_result.task = "human_handle"
    /\ final_response_text = Some(handoff_note \o <<"sales reply">>)

\* C15: no analysis step raises to the orchestrator: a run that is in an
\* analysis step does not leave it by an exception.
C15_StepsNeverRaise ==
    [][(pc \in {"Received", "Analyzed", "Loaded", "SalesDone"})
           => (pc' # "Raised")]_vars

\* the turns of a list are in the order of their receive_input calls
InCallOrder(turns) ==
    \A i \in 1..(Len(turns) - 1) : turns[i].id < turns[i + 1].id

\* C16: the hot buffer lists the turns in the order of their receive_input
\* calls, and so does the list of cold turns that compaction reads in
\* chronological order, also for turns appended within one clock second.
C16_TurnOrderKept ==
    InCallOrder(hot) /\ InCallOrder(last.fetched)

\* C17: when compaction runs and the extraction step fails, the session
\* summary is updated and the deletion of old rows is committed all the
\* same; when the summarization step fails, the customer row is updated
\* with the extracted name all the same.
C17_SubStepsIsolated ==
    last.fired =>
        /\ (/\ last.outcome.fetchOk
            /\ last.outcome.extraction = "raise"
            /\ last.outcome.summary \notin {"raise", "empty_dict"}
            /\ last.outcome.updateOk
            /\ last.outcome.deleteOk
            /\ session.exists)
           => (/\ session.summary = Some(SummaryText(last.outcome.summary))
               /\ last.completed)
        /\ (/\ last.outcome.fetchOk
            /\ last.outcome.summary = "raise"
            /\ last.outcome.extraction = "identity"
            /\ last.outcome.mergeOk
            /\ session.exists
            /\ customer.exists)
           => customer.full_name = Some(ExtractedName)

\* the items of a metadata list; a key that is not there has no items
ListOf(value) == IF value.kind = "list" THEN value.val ELSE <<>>

\* C18: a call whose compaction updates the session row sets the summary to
\* the new summary text and tags and key_topics to the new lists, empty or
\* not, and leaves the other metadata keys and handoff_reason as they were.
C18_SummaryMergeIsAdditive ==
    [][(last'.id # last.id /\ last'.summaryUpdated) =>
           (/\ session'.summary = Some(SummaryText(last'.outcome.summary))
            /\ ListOf(session'.tags) = last'.outcome.tags
            /\ ListOf(session'.key_topics) = last'.outcome.key_topics
            /\ session'.rest = session.rest
            /\ session'.handoff_reason = session.handoff_reason)]_vars

\* C19: no state holds a hot buffer key or a context key without expiry:
\* after every write the key written carries the default time-to-live.
C19_EveryKeyExpires ==
    chat_ttl # "persistent" /\ ctx.ttl # "persistent"

\* the operations that write a field of the context hash
FieldWrites == {"initialize", "update_field", "increment_tokens",
                "update_context_field", "update_active_context"}

\* C20: once the context is initialized, an operation changes total_tokens
\* only by adding its amount to it, and every operation that writes a field
\* sets updated_at to the time of the write.
C20_TokensOnlyIncrement ==
    /\ (ctx_op.created_before /\ ctx.total_tokens # ctx_op.tokens_before)
           => (/\ ctx_op.op = "increment_tokens"
               /\ ctx.total_tokens = ctx_op.tokens_before + ctx_op.amount)
    /\ ctx_op.op \in FieldWrites => ctx.updated_at = ctx_op.time


C25_OpaqueConversationId ==
    (last.called /\ ~uuidValid)
        => (/\ last.countRead # -1
            /\ (last.evicted => ~last.saveSkipped))

\* C26: loading the short memory leaves the hot buffer as it was.
C26_ShortMemoryIsPureRead ==
    [][(pc = "Routed" /\ pc' = "Loaded") => (hot' = hot)]_vars

\* C27: the summary key of the session metadata holds a text whenever it
\* holds anything.
C27_SummaryIsText ==
    session.summary.kind \in {"none", "text"}


\* the order of the steps of one run
FixedOrder ==
    <<"Phase 0: receive_input (user)", Phase1Mark, RoutingMark,
      "Phase 1 result", "Phase 2: Sales workflow",
      "Phase 2.0: Load short memory">> \o SalesMarks \o
    <<GuardrailMark, EscalationMark, AssistantMark>>

Marks(trace) == {trace[i] : i \in 1..Len(trace)}

\* the place of each step in the fixed order
Position ==
    [mark \in Marks(FixedOrder) |->
        CHOOSE i \in 1..Len(FixedOrder) : FixedOrder[i] = mark]

\* C23: the steps of a run are taken in the fixed order, the user turn
\* first; once the assistant turn is stored the guardrail has run and the
\* newest turn of the hot buffer is the assistant turn whose content is the
\* final_response_text returned; the durable handoff update is made only
\* for a human_handle task and only after the assistant turn is stored.
C23_FixedStepOrder ==
    /\ \A i \in 1..Len(phase_trace) :
          /\ phase_trace[i] \in DOMAIN Position
          /\ i > 1 => Position[phase_trace[i - 1]] < Position[phase_trace[i]]
    /\ pc # "idle" => (phase_trace # <<>> /\ phase_trace[1] = FixedOrder[1])
    /\ pc \in {"Stored", "Responded"} =>
          (/\ {Phase1Mark, RoutingMark, GuardrailMark, AssistantMark}
                 \subseteq Marks(phase_trace)
           /\ SalesMarks = SubSeq(phase_trace, 7, 11)
           /\ hot # <<>>
           /\ hot[Len(hot)].role = "assistant"
           /\ hot[Len(hot)].content = final_response_text.val
           /\ MainShows = final_response_text.val \/ pc = "Stored")
    /\ handoff_write \notin {"none", "skipped"} =>
          (/\ orchestrator_result.task = "human_handle"
           /\ pc = "Responded"
           /\ AssistantMark \in Marks(phase_trace)
           /\ EscalationMark \in Marks(phase_trace))

\* a human_handle run that stored its assistant turn and then made the
\* durable handoff update, the guardrail having changed the sales text
C23_Witness ==
    /\ pc = "Responded"
    /\ orchestrator_result.task = "human_handle"
    /\ handoff_write = "ok"
    /\ phase_trace = FixedOrder
    /\ final_response_text.val # sales_result


\* C22: when the routing input is built and when the routing step has run,
\* both tasks of Phase 1 have finished, whichever finished first; the
\* results bound are the results of the two tasks, the routing input holds
\* the intent fields of the one and the handoff fields of the other, and the
\* routing result repeats the handoff fields of the input.
C22_Phase1Join ==
    pc \in {"Analyzed", "Routed"} =>
        (/\ phase1.intent.state = "done"
         /\ phase1.handoff.state = "done"
         /\ phase1.first \in {"intent", "handoff"}
         /\ intent_result = phase1.intent.result
         /\ intent_result \in IntentOutputs
         /\ handoff_result = phase1.handoff.result
         /\ handoff_result \in HandoffOutputs \cup {HandoffFallback}
         /\ orchestrator_input.kind = "input"
         /\ orchestrator_input.val.intent_code = intent_result.intent_code
         /\ orchestrator_input.val.clean_intent_text
                = intent_result.clean_intent_text
         /\ orchestrator_input.val.handoff_required
                = handoff_result.handoff_required
         /\ orchestrator_input.val.risk_level = handoff_result.risk_level
         /\ orchestrator_input.val.policy_flags = handoff_result.policy_flags
         /\ orchestrator_input.val.handoff_reason = handoff_result.handoff_reason
         /\ (pc = "Routed" =>
                orchestrator_result.handoff_required
                    = phase1.handoff.result.handoff_required))

\* a run routed after the handoff analysis finished before the intent
\* extraction, with a handoff required
C22_Witness ==
    /\ pc = "Routed"
    /\ phase1.first = "handoff"
    /\ phase1.handoff.result.handoff_required
    /\ phase1.intent.result.intent_code = "price_inquiry"


\* the product names of a combo name a hoodie
NamesHoodie(c) ==
    \E i \in 1..Len(c.products) : contains(_normalize_text(c.products[i]), hoodie)

C29_EmptyCatalogFallsBack ==
    (offer.phase \notin {"none", "Requirements"} /\ offer.products = <<>>)
        => (/\ offer.phase # "Raised"
            /\ offer.available_combos # <<>>)


\* C28: at no time are two compactions of the conversation suspended in
\* their summary-agent calls.
C28_OneCompactionInFlight ==
    Len(inflight) <= 1


\* every database statement of the last call went through
DatabaseUp ==
    /\ ~last.saveFailed
    /\ last.countRead # -1
    /\ last.outcome.fetchOk
    /\ last.outcome.mergeOk
    /\ last.outcome.updateOk
    /\ last.outcome.deleteOk

=============================================================================
